---- MODULE Spec2Model ----
(***************************************************************************)
(* Model of streamlit_app.py (SchoolDoc AI, 1-Page Action Brief).          *)
(*                                                                         *)
(* A Python str is modelled as a sequence of characters, each character a  *)
(* one-character TLA+ string; the bullet U+2022 is the atom "u2022".       *)
(* Regular expressions are modelled by what they match on such sequences   *)
(* (word boundaries, alternation precedence and greedy repetition kept).   *)
(***************************************************************************)
EXTENDS Integers, Sequences, FiniteSets, TLC

VARIABLES
    pc,             \* position of the run: which operation acted last
    text,           \* the document text handed to the pipeline
    max_sentences,  \* summarize_text's max_sentences argument
    summary,        \* summarize_text's return value
    top_n,          \* find_key_points' top_n argument
    key_points,     \* find_key_points' return value
    requirements,   \* find_requirements' return value; the reqs argument of
                    \* extract_skills and propose_next_steps
    skills,         \* extract_skills' return value
    deadlines,      \* the pair (hit_lines, pretty): find_deadlines' return value and
                    \* propose_next_steps' second argument
    next_steps,     \* propose_next_steps' return value
    source_name,    \* brief_to_markdown's source_name argument: the uploaded file's name
    now,            \* the clock value datetime.now() returned to the last operation that read it
    brief,          \* make_brief's return value
    md,             \* brief_to_markdown's return value
    uploaded,       \* the file in the 'Upload document' widget (NoFile: none)
    with_styling,   \* the 'Use condensed layout' toggle
    form,           \* the values of the widgets of the skills form, while the page shows them
    clicked,        \* the interaction that triggered the last script run
    screen,         \* the elements the last script run put on the page
    receipts        \* the rows make_skills_receipt_row has returned so far

vars == <<pc, text, max_sentences, summary, top_n, key_points, requirements, skills,
          deadlines, next_steps, source_name, now, brief, md, uploaded, with_styling,
          form, clicked, screen, receipts>>

----------------------------------------------------------------------------
(* Characters and Python's str helpers                                     *)

LowerLetters ==
    {"a", "b", "c", "d", "e", "f", "g", "h", "i", "j", "k", "l", "m",
     "n", "o", "p", "q", "r", "s", "t", "u", "v", "w", "x", "y", "z"}

UpperLetters ==
    {"A", "B", "C", "D", "E", "F", "G", "H", "I", "J", "K", "L", "M",
     "N", "O", "P", "Q", "R", "S", "T", "U", "V", "W", "X", "Y", "Z"}

Letters == LowerLetters \cup UpperLetters

Digits == {"0", "1", "2", "3", "4", "5", "6", "7", "8", "9"}

\* \s of re and the characters str.strip() removes
Whitespace == {" ", "\t", "\n"}

\* \w of re
WordChars == Letters \cup Digits \cup {"_"}

UpperToLower ==
    ("A" :> "a") @@ ("B" :> "b") @@ ("C" :> "c") @@ ("D" :> "d") @@ ("E" :> "e") @@
    ("F" :> "f") @@ ("G" :> "g") @@ ("H" :> "h") @@ ("I" :> "i") @@ ("J" :> "j") @@
    ("K" :> "k") @@ ("L" :> "l") @@ ("M" :> "m") @@ ("N" :> "n") @@ ("O" :> "o") @@
    ("P" :> "p") @@ ("Q" :> "q") @@ ("R" :> "r") @@ ("S" :> "s") @@ ("T" :> "t") @@
    ("U" :> "u") @@ ("V" :> "v") @@ ("W" :> "w") @@ ("X" :> "x") @@ ("Y" :> "y") @@
    ("Z" :> "z")

LowerChar(c) == IF c \in UpperLetters THEN UpperToLower[c] ELSE c

\* str.lower()
Lower(s) == [i \in 1..Len(s) |-> LowerChar(s[i])]

Min(S) == CHOOSE x \in S : \A y \in S : x <= y

Max(S) == CHOOSE x \in S : \A y \in S : x >= y

Abs(n) == IF n < 0 THEN -n ELSE n

\* the elements of a finite set of integers in ascending order
SortedSeq(S) ==
    [k \in 1..Cardinality(S) |-> CHOOSE x \in S : Cardinality({y \in S : y < x}) = k - 1]

\* str.strip(chars): drop leading and trailing characters that are in cs
StripChars(s, cs) ==
    LET keep == {i \in 1..Len(s) : s[i] \notin cs}
    IN  IF keep = {} THEN <<>> ELSE SubSeq(s, Min(keep), Max(keep))

\* str.strip()
Strip(s) == StripChars(s, Whitespace)

\* the maximal runs of characters of cs in s, as <<first, last>> pairs, left to right
Runs(s, cs) ==
    LET n == Len(s)
        last(i) == Min({j \in i..n : j = n \/ s[j + 1] \notin cs})
        Pairs(starts) == [k \in 1..Len(starts) |-> <<starts[k], last(starts[k])>>]
    IN  Pairs(SortedSeq({i \in 1..n : s[i] \in cs /\ (i = 1 \/ s[i - 1] \notin cs)}))

RECURSIVE Join(_, _)
\* sep.join(parts)
Join(parts, sep) ==
    IF parts = <<>> THEN <<>>
    ELSE IF Len(parts) = 1 THEN parts[1]
    ELSE parts[1] \o sep \o Join(Tail(parts), sep)

\* [x for x in xs if x], order kept
NonEmpty(xs) ==
    LET keep == SortedSeq({i \in 1..Len(xs) : xs[i] # <<>>})
    IN  [k \in 1..Len(keep) |-> xs[keep[k]]]

\* xs[:n]
Take(xs, n) == SubSeq(xs, 1, IF n < Len(xs) THEN n ELSE Len(xs))

----------------------------------------------------------------------------
(* Values of the page state while nothing is there                         *)

\* st.file_uploader returned None
NoFile == [name |-> <<>>, type |-> "none", content |-> <<>>, pages |-> <<>>]

\* the skills form is not on the page
NoForm == [shown |-> FALSE]

\* no script run yet
NoClick == [button |-> "none", user_name |-> <<>>]

----------------------------------------------------------------------------
(* Simple extractive summarizer                                            *)

STOPWORDS ==
    {<<"a">>, <<"a", "b", "o", "u", "t">>, <<"a", "b", "o", "v", "e">>,
     <<"a", "f", "t", "e", "r">>, <<"a", "g", "a", "i", "n">>,
     <<"a", "g", "a", "i", "n", "s", "t">>, <<"a", "l", "l">>, <<"a", "m">>, <<"a", "n">>,
     <<"a", "n", "d">>, <<"a", "n", "y">>, <<"a", "r", "e">>, <<"a", "r", "e", "n", "'", "t">>,
     <<"a", "s">>, <<"a", "t">>, <<"b", "e">>, <<"b", "e", "c", "a", "u", "s", "e">>,
     <<"b", "e", "e", "n">>, <<"b", "e", "f", "o", "r", "e">>, <<"b", "e", "i", "n", "g">>,
     <<"b", "e", "l", "o", "w">>, <<"b", "e", "t", "w", "e", "e", "n">>, <<"b", "o", "t", "h">>,
     <<"b", "u", "t">>, <<"b", "y">>, <<"c", "a", "n", "'", "t">>,
     <<"c", "a", "n", "n", "o", "t">>, <<"c", "o", "u", "l", "d">>,
     <<"c", "o", "u", "l", "d", "n", "'", "t">>, <<"d", "i", "d">>,
     <<"d", "i", "d", "n", "'", "t">>, <<"d", "o">>, <<"d", "o", "e", "s">>,
     <<"d", "o", "e", "s", "n", "'", "t">>, <<"d", "o", "i", "n", "g">>,
     <<"d", "o", "n", "'", "t">>, <<"d", "o", "w", "n">>, <<"d", "u", "r", "i", "n", "g">>,
     <<"e", "a", "c", "h">>, <<"f", "e", "w">>, <<"f", "o", "r">>, <<"f", "r", "o", "m">>,
     <<"f", "u", "r", "t", "h", "e", "r">>, <<"h", "a", "d">>, <<"h", "a", "d", "n", "'", "t">>,
     <<"h", "a", "s">>, <<"h", "a", "s", "n", "'", "t">>, <<"h", "a", "v", "e">>,
     <<"h", "a", "v", "e", "n", "'", "t">>, <<"h", "a", "v", "i", "n", "g">>, <<"h", "e">>,
     <<"h", "e", "'", "d">>, <<"h", "e", "'", "l", "l">>, <<"h", "e", "'", "s">>,
     <<"h", "e", "r">>, <<"h", "e", "r", "e">>, <<"h", "e", "r", "e", "'", "s">>,
     <<"h", "e", "r", "s">>, <<"h", "e", "r", "s", "e", "l", "f">>, <<"h", "i", "m">>,
     <<"h", "i", "m", "s", "e", "l", "f">>, <<"h", "i", "s">>, <<"h", "o", "w">>,
     <<"h", "o", "w", "'", "s">>, <<"i">>, <<"i", "'", "d">>, <<"i", "'", "l", "l">>,
     <<"i", "'", "m">>, <<"i", "'", "v", "e">>, <<"i", "f">>, <<"i", "n">>,
     <<"i", "n", "t", "o">>, <<"i", "s">>, <<"i", "s", "n", "'", "t">>, <<"i", "t">>,
     <<"i", "t", "'", "s">>, <<"i", "t", "s">>, <<"i", "t", "s", "e", "l", "f">>,
     <<"l", "e", "t", "'", "s">>, <<"m", "e">>, <<"m", "o", "r", "e">>, <<"m", "o", "s", "t">>,
     <<"m", "u", "s", "t", "n", "'", "t">>, <<"m", "y">>, <<"m", "y", "s", "e", "l", "f">>,
     <<"n", "o">>, <<"n", "o", "r">>, <<"n", "o", "t">>, <<"o", "f">>, <<"o", "f", "f">>,
     <<"o", "n">>, <<"o", "n", "c", "e">>, <<"o", "n", "l", "y">>, <<"o", "r">>,
     <<"o", "t", "h", "e", "r">>, <<"o", "u", "g", "h", "t">>, <<"o", "u", "r">>,
     <<"o", "u", "r", "s">>, <<"o", "u", "r", "s", "e", "l", "v", "e", "s">>, <<"o", "u", "t">>,
     <<"o", "v", "e", "r">>, <<"o", "w", "n">>, <<"s", "a", "m", "e">>,
     <<"s", "h", "a", "n", "'", "t">>, <<"s", "h", "e">>, <<"s", "h", "e", "'", "d">>,
     <<"s", "h", "e", "'", "l", "l">>, <<"s", "h", "e", "'", "s">>,
     <<"s", "h", "o", "u", "l", "d">>, <<"s", "h", "o", "u", "l", "d", "n", "'", "t">>,
     <<"s", "o">>, <<"s", "o", "m", "e">>, <<"s", "u", "c", "h">>, <<"t", "h", "a", "n">>,
     <<"t", "h", "a", "t">>, <<"t", "h", "a", "t", "'", "s">>, <<"t", "h", "e">>,
     <<"t", "h", "e", "i", "r">>, <<"t", "h", "e", "i", "r", "s">>, <<"t", "h", "e", "m">>,
     <<"t", "h", "e", "m", "s", "e", "l", "v", "e", "s">>, <<"t", "h", "e", "n">>,
     <<"t", "h", "e", "r", "e">>, <<"t", "h", "e", "r", "e", "'", "s">>,
     <<"t", "h", "e", "s", "e">>, <<"t", "h", "e", "y">>, <<"t", "h", "e", "y", "'", "d">>,
     <<"t", "h", "e", "y", "'", "l", "l">>, <<"t", "h", "e", "y", "'", "r", "e">>,
     <<"t", "h", "e", "y", "'", "v", "e">>, <<"t", "h", "i", "s">>, <<"t", "h", "o", "s", "e">>,
     <<"t", "h", "r", "o", "u", "g", "h">>, <<"t", "o">>, <<"t", "o", "o">>,
     <<"u", "n", "d", "e", "r">>, <<"u", "n", "t", "i", "l">>, <<"u", "p">>,
     <<"v", "e", "r", "y">>, <<"w", "a", "s">>, <<"w", "a", "s", "n", "'", "t">>, <<"w", "e">>,
     <<"w", "e", "'", "d">>, <<"w", "e", "'", "l", "l">>, <<"w", "e", "'", "r", "e">>,
     <<"w", "e", "'", "v", "e">>, <<"w", "e", "r", "e">>, <<"w", "e", "r", "e", "n", "'", "t">>,
     <<"w", "h", "a", "t">>, <<"w", "h", "a", "t", "'", "s">>, <<"w", "h", "e", "n">>,
     <<"w", "h", "e", "n", "'", "s">>, <<"w", "h", "e", "r", "e">>,
     <<"w", "h", "e", "r", "e", "'", "s">>, <<"w", "h", "i", "c", "h">>,
     <<"w", "h", "i", "l", "e">>, <<"w", "h", "o">>, <<"w", "h", "o", "'", "s">>,
     <<"w", "h", "o", "m">>, <<"w", "h", "y">>, <<"w", "h", "y", "'", "s">>,
     <<"w", "i", "t", "h">>, <<"w", "o", "n", "'", "t">>, <<"w", "o", "u", "l", "d">>,
     <<"w", "o", "u", "l", "d", "n", "'", "t">>, <<"y", "o", "u">>, <<"y", "o", "u", "'", "d">>,
     <<"y", "o", "u", "'", "l", "l">>, <<"y", "o", "u", "'", "r", "e">>,
     <<"y", "o", "u", "'", "v", "e">>, <<"y", "o", "u", "r">>, <<"y", "o", "u", "r", "s">>,
     <<"y", "o", "u", "r", "s", "e", "l", "f">>,
     <<"y", "o", "u", "r", "s", "e", "l", "v", "e", "s">>}

Terminal == {".", "!", "?"}

\* re.split(r'(?<=[.!?])\s+', t): the separators are the maximal whitespace runs
\* that directly follow a terminal mark; the pieces are what lies between them
RegexSplit(t) ==
    LET n == Len(t)
        Pieces(seps, cuts) ==
            LET m == Len(cuts)
                from(j) == IF j = 1 THEN 1 ELSE seps[cuts[j - 1]][2] + 1
                upto(j) == IF j = m + 1 THEN n ELSE seps[cuts[j]][1] - 1
            IN  [j \in 1..(m + 1) |-> SubSeq(t, from(j), upto(j))]
        Cut(seps) ==
            Pieces(seps, SortedSeq({k \in 1..Len(seps) :
                                      seps[k][1] > 1 /\ t[seps[k][1] - 1] \in Terminal}))
    IN  Cut(Runs(t, Whitespace))

sentence_split(txt) ==
    LET Stripped(sents) == NonEmpty([i \in 1..Len(sents) |-> Strip(sents[i])])
    IN  Stripped(RegexSplit(Strip(txt)))

TokenChars == Letters \cup {"'"}

word_tokens(txt) ==
    LET Words(r) == [k \in 1..Len(r) |-> Lower(SubSeq(txt, r[k][1], r[k][2]))]
    IN  Words(Runs(txt, TokenChars))

TermCountsUnfiltered(words) ==
    [w \in {words[i] : i \in 1..Len(words)} |->
        Cardinality({i \in 1..Len(words) : words[i] = w})]

\* the raw term counts: freq before the division by m
TermCounts(words) ==
    LET kept == {words[i] : i \in {j \in 1..Len(words) :
                                    words[j] \notin STOPWORDS /\ Len(words[j]) > 2}}
    IN  [w \in kept |-> Cardinality({i \in 1..Len(words) : words[i] = w})]

Ideal == 24

\* score * m * 125, exactly: freq[t] is count[t] / m and
\* 0.4 + 0.6 * (1 - min(0.6, d / 25)) is max(80, 125 - 3 * d) / 125
RECURSIVE SumCounts(_, _)
SumCounts(toks, counts) ==
    IF toks = <<>> THEN 0
    ELSE (IF toks[1] \in DOMAIN counts THEN counts[toks[1]] ELSE 0)
         + SumCounts(Tail(toks), counts)

ScaledScore(toks, counts) ==
    LET length == IF Len(toks) < 1 THEN 1 ELSE Len(toks)
        d == Abs(length - Ideal)
        weight == IF 125 - 3 * d < 80 THEN 80 ELSE 125 - 3 * d
    IN  SumCounts(toks, counts) * weight

\* scored: the (idx, score) pairs of the sentences that hold a token, in source order
Scored(sents, counts) ==
    LET Pairs(has) ==
            [k \in 1..Len(has) |->
                [idx |-> has[k], score |-> ScaledScore(word_tokens(sents[has[k]]), counts)]]
    IN  Pairs(SortedSeq({i \in 1..Len(sents) : word_tokens(sents[i]) # <<>>}))

\* sorted(scored, key=lambda x: x[2], reverse=True): stable, so equal scores keep
\* their order in scored
SortByScoreDesc(scored) ==
    LET n == Len(scored)
        before(i, j) == \/ scored[i].score > scored[j].score
                        \/ (scored[i].score = scored[j].score /\ i < j)
        rank(j) == Cardinality({i \in 1..n : before(i, j)})
    IN  [k \in 1..n |-> scored[CHOOSE j \in 1..n : rank(j) = k - 1]]

SortByIdxUnsorted(top) == top

\* sorted(top, key=lambda x: x[0])
SortByIdx(top) ==
    LET n == Len(top)
        rank(j) == Cardinality({i \in 1..n : top[i].idx < top[j].idx})
    IN  [k \in 1..n |-> top[CHOOSE j \in 1..n : rank(j) = k - 1]]

summarize_text(txt, k) ==
    LET Pick(sents, top_sorted) ==
            Strip(Join([i \in 1..Len(top_sorted) |-> sents[top_sorted[i].idx]], <<" ">>))
        Rank(sents, counts) ==
            IF DOMAIN counts = {} THEN Join(Take(sents, k), <<" ">>)
            ELSE Pick(sents, SortByIdx(Take(SortByScoreDesc(Scored(sents, counts)), k)))
        Count(sents, words) ==
            IF sents = <<>> THEN <<>>
            ELSE IF words = <<>> THEN <<" ">>
            ELSE Rank(sents, TermCounts(words))
    IN  Count(sentence_split(txt), word_tokens(txt))

----------------------------------------------------------------------------
(* Inputs of the summarizer runs                                           *)

MaxChunks == 3

MaxSentences == 3

SumChunks ==
    {<<"C", "a", "t", ".", " ">>,
     <<"t", "h", "e", " ", "c", "a", "t", " ", "c", "a", "t", "!", " ">>,
     <<"T", "h", "e", ".", " ">>, <<"7", ".", " ">>, <<"o", "f", " ", "i", "t", "?", "\n">>,
     <<"d", "o", "g", " ">>, <<" ">>,
     <<"c", "a", "t", " ", "c", "a", "t", " ", "c", "a", "t", " ", "c", "a", "t", " ", "c", "a",
       "t", " ", "c", "a", "t", " ", "c", "a", "t", " ", "c", "a", "t", " ", "c", "a", "t", " ">>}

RECURSIVE Concat(_)
Concat(parts) == IF parts = <<>> THEN <<>> ELSE parts[1] \o Concat(Tail(parts))

TextsOf(chunks, n) ==
    {Concat(p) : p \in UNION {[1..k -> chunks] : k \in 0..n}}

InitSummarize ==
    /\ pc = "start"
    /\ text \in TextsOf(SumChunks, MaxChunks)
    /\ max_sentences \in 1..MaxSentences
    /\ summary = <<>>
    /\ top_n = 6
    /\ key_points = <<>>
    /\ requirements = <<>>
    /\ skills = <<>>
    /\ deadlines = <<<<>>, <<>>>>
    /\ next_steps = <<>>
    /\ source_name = <<>>
    /\ now = <<>>
    /\ brief = <<>>
    /\ md = <<>>
    /\ uploaded = NoFile
    /\ with_styling = TRUE
    /\ form = NoForm
    /\ clicked = NoClick
    /\ screen = {}
    /\ receipts = <<>>

Summarize ==
    /\ pc = "start"
    /\ summary' = summarize_text(text, max_sentences)
    /\ pc' = "summarized"
    /\ UNCHANGED <<text, max_sentences, top_n, key_points, requirements, skills, deadlines,
                   next_steps, source_name, now, brief, md, uploaded, with_styling, form,
                   clicked, screen, receipts>>

NextSummarize == Summarize

SpecSummarize == InitSummarize /\ [][NextSummarize]_vars

\* the sentences of sents at the indices of S, in index order
Selection(sents, S) ==
    LET At(ix) == [k \in 1..Len(ix) |-> sents[ix[k]]] IN At(SortedSeq(S))

SentenceScore(sent, txt) == ScaledScore(word_tokens(sent), TermCounts(word_tokens(txt)))

\* C1: for every text and every max_sentences >= 1 the summary is made of sentences
\* of sentence_split(text) taken in strictly increasing index order and joined by
\* single spaces (at most max_sentences of them), whatever their scores; the only
\* other output is the single-space placeholder of a text without word tokens, which
\* emits no sentence.
C1_SummaryInSourceOrder ==
    pc = "summarized" =>
        LET sents == sentence_split(text)
        IN  \/ /\ word_tokens(text) = <<>>
               /\ summary \in {<<>>, <<" ">>}
            \/ \E S \in SUBSET (1..Len(sents)) :
                   /\ Cardinality(S) <= max_sentences
                   /\ summary = Join(Selection(sents, S), <<" ">>)

\* a summary of two sentences of which the later one scored strictly higher, with a
\* third sentence left out
C1_Witness ==
    /\ pc = "summarized"
    /\ LET sents == sentence_split(text)
       IN  /\ Len(sents) > 2
           /\ \E i, j \in 1..Len(sents) :
                  /\ i < j
                  /\ SentenceScore(sents[j], text) > SentenceScore(sents[i], text)
                  /\ SentenceScore(sents[i], text) > 0
                  /\ summary = sents[i] \o <<" ">> \o sents[j]

AllFiltered(words) == \A i \in 1..Len(words) : words[i] \in STOPWORDS \/ Len(words[i]) <= 2

\* C2 as stated: a text without sentences gives the empty string, and a text that
\* has sentences and whose word tokens are all stopwords or of length <= 2 (its
\* frequency table is empty) gives the first max_sentences sentences joined by single
\* spaces.
C2_AsStated ==
    pc = "summarized" =>
        LET sents == sentence_split(text)
        IN  /\ sents = <<>> => summary = <<>>
            /\ (sents # <<>> /\ AllFiltered(word_tokens(text)))
                   => summary = Join(Take(sents, max_sentences), <<" ">>)

\* C2 amended: the first-sentences fallback is the result when the text has at least
\* one word token and all of them are stopwords or of length <= 2; a text that has
\* sentences and no word token at all gives the single-space placeholder.
C2_DegenerateFallback ==
    pc = "summarized" =>
        LET sents == sentence_split(text)
            words == word_tokens(text)
        IN  /\ sents = <<>> => summary = <<>>
            /\ (sents # <<>> /\ words = <<>>) => summary = <<" ">>
            /\ (sents # <<>> /\ words # <<>> /\ AllFiltered(words))
                   => summary = Join(Take(sents, max_sentences), <<" ">>)

\* a stopword-only text with more sentences than max_sentences has been summarized
C2_Witness ==
    /\ pc = "summarized"
    /\ word_tokens(text) # <<>>
    /\ AllFiltered(word_tokens(text))
    /\ Len(sentence_split(text)) > max_sentences
    /\ summary # <<>>

----------------------------------------------------------------------------
(* Info extraction: lines, key points, requirements                        *)

\* str.splitlines(): the pieces between line breaks, without a last empty piece
SplitLines(s) ==
    LET n == Len(s)
        Pieces(nl) ==
            LET m == Len(nl)
                from(j) == IF j = 1 THEN 1 ELSE nl[j - 1] + 1
                upto(j) == IF j = m + 1 THEN n ELSE nl[j] - 1
                count == IF n = 0 \/ s[n] = "\n" THEN m ELSE m + 1
            IN  [j \in 1..count |-> SubSeq(s, from(j), upto(j))]
    IN  Pieces(SortedSeq({i \in 1..n : s[i] = "\n"}))

\* the elements of xs at the indices of keep, in order
Filter(xs, keep) ==
    LET At(ix) == [k \in 1..Len(ix) |-> xs[ix[k]]] IN At(SortedSeq(keep))

\* first occurrences only, compared by x.lower()
DedupLower(xs) ==
    Filter(xs, {i \in 1..Len(xs) : \A j \in 1..(i - 1) : Lower(xs[j]) # Lower(xs[i])})

\* first occurrences only, compared exactly
DedupExact(xs) ==
    Filter(xs, {i \in 1..Len(xs) : \A j \in 1..(i - 1) : xs[j] # xs[i]})

EndsWith(s, c) == s # <<>> /\ s[Len(s)] = c

MinKeyLen == 40

MaxKeyLen == 220

KeyStripChars == {" ", "-", "u2022", "*", "\t"}

IsKeyCandidateNoUpperBound(l) == MinKeyLen <= Len(l) /\ ~EndsWith(l, ":")

\* 40 <= len(l) <= 220 and not l.endswith(":")
IsKeyCandidate(l) == MinKeyLen <= Len(l) /\ Len(l) <= MaxKeyLen /\ ~EndsWith(l, ":")

find_key_points(txt, n) ==
    LET Stripped(lines) == [i \in 1..Len(lines) |-> StripChars(lines[i], KeyStripChars)]
        Candidates(stripped) ==
            Filter(stripped, {i \in 1..Len(stripped) : IsKeyCandidate(stripped[i])})
    IN  Take(DedupLower(Candidates(Stripped(SplitLines(txt)))), n)

\* position p lies between s[p - 1] and s[p]; \b holds there when exactly one of
\* the two is a word character (outside the string counts as none)
Boundary(s, p) ==
    LET before == p > 1 /\ s[p - 1] \in WordChars
        after == p <= Len(s) /\ s[p] \in WordChars
    IN  before # after

\* re.search of one literal alternative, with \b before it (lead) and after it
\* (trail) where the pattern has them; s is already lower-cased (re.I)
FindLiteral(s, alt) ==
    \E i \in 1..(Len(s) - Len(alt.lit) + 1) :
        /\ SubSeq(s, i, i + Len(alt.lit) - 1) = alt.lit
        /\ alt.lead => Boundary(s, i)
        /\ alt.trail => Boundary(s, i + Len(alt.lit))

\* re.search(pattern, s, re.I) for a pattern given as its literal alternatives
Search(pattern, s) == \E alt \in pattern : FindLiteral(Lower(s), alt)

Word(w) == [lit |-> w, lead |-> TRUE, trail |-> TRUE]

\* r"\b(must|required?|need to|provide|eligib|documentation|proof|return|submit)\b"
RequirementPattern ==
    {Word(<<"m", "u", "s", "t">>), Word(<<"r", "e", "q", "u", "i", "r", "e">>), Word(
          <<"r", "e", "q", "u", "i", "r", "e", "d">>), Word(<<"n", "e", "e", "d", " ", "t", "o">>),
     Word(<<"p", "r", "o", "v", "i", "d", "e">>), Word(<<"e", "l", "i", "g", "i", "b">>), Word(
          <<"d", "o", "c", "u", "m", "e", "n", "t", "a", "t", "i", "o", "n">>), Word(
          <<"p", "r", "o", "o", "f">>),
     Word(<<"r", "e", "t", "u", "r", "n">>), Word(<<"s", "u", "b", "m", "i", "t">>)}

\* the length of the match of ^(\*|-|u2022|\d+\.) at the start of l, 0 without one
MarkerLen(l) ==
    LET digits == IF l # <<>> /\ l[1] \in Digits THEN Runs(l, Digits)[1][2] ELSE 0
    IN  IF l = <<>> THEN 0
        ELSE IF l[1] \in {"*", "-", "u2022"} THEN 1
        ELSE IF digits > 0 /\ digits < Len(l) /\ l[digits + 1] = "." THEN digits + 1
        ELSE 0

\* re.match(r"^(\*|-|u2022|\d+\.)\s+", l)
IsListItem(l) ==
    MarkerLen(l) > 0 /\ MarkerLen(l) < Len(l) /\ l[MarkerLen(l) + 1] \in Whitespace

\* re.sub(r"^(\*|-|u2022|\d+\.)\s*", "", l)
StripMarker(l) ==
    LET m == MarkerLen(l)
        rest == {i \in (m + 1)..Len(l) : l[i] \notin Whitespace}
    IN  IF m = 0 THEN l
        ELSE IF rest = {} THEN <<>>
        ELSE SubSeq(l, Min(rest), Len(l))

MaxReqLen == 220

MaxRequirements == 12

IsRequirementLine(l_clean) ==
    /\ l_clean # <<>>
    /\ IsListItem(l_clean) \/ Len(l_clean) < MaxReqLen
    /\ Search(RequirementPattern, l_clean)

find_requirements(txt) ==
    LET Clean(lines) == [i \in 1..Len(lines) |-> Strip(lines[i])]
        Hits(clean) == Filter(clean, {i \in 1..Len(clean) : IsRequirementLine(clean[i])})
        ReqLines(hits) == [i \in 1..Len(hits) |-> StripMarker(hits[i])]
    IN  Take(DedupLower(ReqLines(Hits(Clean(SplitLines(txt))))), MaxRequirements)

----------------------------------------------------------------------------
(* Inputs of the key-point runs                                            *)

Repeat(c, n) == [i \in 1..n |-> c]

\* a line: a bullet lead, then n characters of which the last is endc, then a trail
KeyLine(lead, first, n, endc, trail) ==
    lead \o <<first>> \o Repeat("x", n - 2) \o <<endc>> \o trail

KeyLens == {MinKeyLen - 1, MinKeyLen, MaxKeyLen, MaxKeyLen + 1}

KeyLines ==
    {KeyLine(w[1], "k", n, endc, w[2]) :
        w \in {<<<<>>, <<>>>>, <<<<"-", " ">>, <<" ", "\t">>>>}, n \in KeyLens, endc \in {"x", ":"}}
    \cup {KeyLine(<<>>, "K", MinKeyLen, "x", <<>>), <<>>}

MaxKeyLines == 2

MaxTopN == 2

LinesOf(lines, n) ==
    {Join(p, <<"\n">>) : p \in UNION {[1..k -> lines] : k \in 0..n}}

InitKeyPoints ==
    /\ pc = "start"
    /\ text \in LinesOf(KeyLines, MaxKeyLines)
    /\ top_n \in 1..MaxTopN
    /\ max_sentences = 5
    /\ summary = <<>>
    /\ key_points = <<>>
    /\ requirements = <<>>
    /\ skills = <<>>
    /\ deadlines = <<<<>>, <<>>>>
    /\ next_steps = <<>>
    /\ source_name = <<>>
    /\ now = <<>>
    /\ brief = <<>>
    /\ md = <<>>
    /\ uploaded = NoFile
    /\ with_styling = TRUE
    /\ form = NoForm
    /\ clicked = NoClick
    /\ screen = {}
    /\ receipts = <<>>

FindKeyPoints ==
    /\ pc = "start"
    /\ key_points' = find_key_points(text, top_n)
    /\ pc' = "key_points"
    /\ UNCHANGED <<text, max_sentences, summary, top_n, requirements, skills, deadlines,
                   next_steps, source_name, now, brief, md, uploaded, with_styling, form,
                   clicked, screen, receipts>>

NextKeyPoints == FindKeyPoints

SpecKeyPoints == InitKeyPoints /\ [][NextKeyPoints]_vars

\* C3 as stated: every returned key point has, after stripping, a length strictly
\* between 40 and 220 characters and does not end in a colon.
C3_AsStated ==
    pc = "key_points" =>
        \A i \in 1..Len(key_points) :
            /\ MinKeyLen < Len(key_points[i])
            /\ Len(key_points[i]) < MaxKeyLen
            /\ ~EndsWith(key_points[i], ":")

\* C3 amended: every returned key point is a stripped line of the text of length
\* 40 to 220 characters, both ends included, that does not end in a colon; and the
\* first line of the text whose stripped form has such a length and no final colon
\* is returned first, so stripped lines of exactly 40 and exactly 220 characters are
\* returned.
C3_KeyPointLength ==
    pc = "key_points" =>
        LET lines == SplitLines(text)
            stripped == [i \in 1..Len(lines) |-> StripChars(lines[i], KeyStripChars)]
            fits(l) == /\ MinKeyLen <= Len(l)
                       /\ Len(l) <= MaxKeyLen
                       /\ l[Len(l)] # ":"
            ok == {i \in 1..Len(stripped) : fits(stripped[i])}
        IN  /\ \A i \in 1..Len(key_points) :
                   /\ fits(key_points[i])
                   /\ \E j \in 1..Len(stripped) : stripped[j] = key_points[i]
            /\ ok # {} => key_points # <<>> /\ key_points[1] = stripped[Min(ok)]
            /\ ok = {} => key_points = <<>>

\* key points of exactly 40 and of exactly 220 characters were returned, one of them
\* from a line that lost its bullet
C3_Witness ==
    /\ pc = "key_points"
    /\ \E i, j \in 1..Len(key_points) :
           /\ Len(key_points[i]) = MinKeyLen
           /\ Len(key_points[j]) = MaxKeyLen
    /\ \E l \in {SplitLines(text)[i] : i \in 1..Len(SplitLines(text))} :
           Len(l) > MaxKeyLen /\ StripChars(l, KeyStripChars) \in {key_points[i] : i \in 1..Len(key_points)}

----------------------------------------------------------------------------
(* Inputs of the requirement runs                                          *)

ReqLines ==
    {<<"S", "t", "u", "d", "e", "n", "t", "s", " ", "a", "r", "e", " ", "e", "l", "i", "g", "i",
       "b", "l", "e", " ", "f", "o", "r", " ", "a", "i", "d">>,
     <<"E", "l", "i", "g", "i", "b", "i", "l", "i", "t", "y", " ", "r", "u", "l", "e", "s", " ",
       "a", "p", "p", "l", "y", ".">>,
     <<"Y", "o", "u", " ", "M", "U", "S", "T", " ", "s", "i", "g", "n">>,
     <<"-", " ", "M", "u", "s", "t", " ", "s", "u", "b", "m", "i", "t", " ", "F", "o", "r", "m",
       " ", "A", " ", "b", "y", " ", "F", "r", "i", "d", "a", "y">>,
     <<"1", ".", " ", "P", "r", "o", "v", "i", "d", "e", " ", "p", "r", "o", "o", "f">>,
     <<"1", "2", ".", "n", "e", "e", "d", " ", "t", "o", " ", "r", "e", "t", "u", "r", "n">>,
     <<"N", "o", " ", "k", "e", "y", "w", "o", "r", "d", " ", "h", "e", "r", "e">>,
     <<"S", "u", "b", "m", "i", "t", "t", "e", "d", " ", "a", "l", "r", "e", "a", "d", "y">>,
     <<" ", " ", "*", " ", "r", "e", "q", "u", "i", "r", "e", "d", " ", " ">>, <<>>,
     <<"u2022", "d", "o", "c", "u", "m", "e", "n", "t", "a", "t", "i", "o", "n">>,
     <<"-", " ", "m", "u", "s", "t", " ", "s", "u", "b", "m", "i", "t", " ", "f", "o", "r", "m",
       " ", "a", " ", "b", "y", " ", "f", "r", "i", "d", "a", "y">>,
     <<"m", "u", "s", "t", " ">> \o Repeat("x", MaxReqLen - 5),
     <<"-", " ", "m", "u", "s", "t", " ">> \o Repeat("x", MaxReqLen)}

MaxReqLines == 2

InitRequirements ==
    /\ pc = "start"
    /\ text \in LinesOf(ReqLines, MaxReqLines)
    /\ max_sentences = 5
    /\ summary = <<>>
    /\ top_n = 6
    /\ key_points = <<>>
    /\ requirements = <<>>
    /\ skills = <<>>
    /\ deadlines = <<<<>>, <<>>>>
    /\ next_steps = <<>>
    /\ source_name = <<>>
    /\ now = <<>>
    /\ brief = <<>>
    /\ md = <<>>
    /\ uploaded = NoFile
    /\ with_styling = TRUE
    /\ form = NoForm
    /\ clicked = NoClick
    /\ screen = {}
    /\ receipts = <<>>

FindRequirements ==
    /\ pc = "start"
    /\ requirements' = find_requirements(text)
    /\ pc' = "requirements"
    /\ UNCHANGED <<text, max_sentences, summary, top_n, key_points, skills, deadlines,
                   next_steps, source_name, now, brief, md, uploaded, with_styling, form,
                   clicked, screen, receipts>>

NextRequirements == FindRequirements

SpecRequirements == InitRequirements /\ [][NextRequirements]_vars

\* the obligation keywords as the claim reads them: whole words, except eligib,
\* which is a prefix of a word
ClaimedRequirementPattern ==
    (RequirementPattern \ {Word(<<"e", "l", "i", "g", "i", "b">>)})
        \cup {[lit |-> <<"e", "l", "i", "g", "i", "b">>, lead |-> TRUE, trail |-> FALSE]}

\* C6: every non-empty line shorter than 220 characters that holds an obligation
\* keyword, a word beginning with eligib included, is returned by find_requirements
\* with its marker stripped (up to the case-insensitive deduplication and the cap).
C6_EligibPrefixIsRequirement ==
    pc = "requirements" =>
        LET lines == SplitLines(text)
        IN  \A i \in 1..Len(lines) :
                LET l == Strip(lines[i])
                IN  (l # <<>> /\ Len(l) < MaxReqLen /\ Search(ClaimedRequirementPattern, l))
                        => \/ Len(requirements) = MaxRequirements
                           \/ \E j \in 1..Len(requirements) :
                                  Lower(requirements[j]) = Lower(StripMarker(l))

----------------------------------------------------------------------------
(* Skills mapping                                                          *)

Alt(l, lead, trail) == [lit |-> l, lead |-> lead, trail |-> trail]

\* the table in insertion order; each pattern is given by its literal alternatives.
\* A \b at the start of a pattern binds to its first alternative only and a \b at
\* its end to its last, as | has the lowest precedence.
SKILL_DICTIONARY ==
    << [pattern |-> {Alt(<<"i", "m", "m", "u", "n", "i", "s", "a", "t", "i", "o", "n">>, TRUE, FALSE), Alt(
                         <<"i", "m", "m", "u", "n", "i", "z", "a", "t", "i", "o", "n">>, TRUE, FALSE),
                     Alt(<<"v", "a", "c", "c", "i", "n", "e">>, FALSE, TRUE)},
        skill |-> <<"H", "e", "a", "l", "t", "h", " ", "D", "o", "c", "u", "m", "e", "n", "t",
                    "a", "t", "i", "o", "n">>],
       [pattern |-> {Alt(<<"c", "o", "n", "s", "e", "n", "t", " ", "f", "o", "r", "m">>, TRUE, FALSE), Alt(
                         <<"p", "e", "r", "m", "i", "s", "s", "i", "o", "n", " ", "s", "l", "i",
                           "p">>, FALSE, TRUE)},
        skill |-> <<"C", "o", "n", "s", "e", "n", "t", " ", "&", " ", "F", "o", "r", "m", "s">>],
       [pattern |-> {Alt(<<"t", "r", "a", "n", "s", "p", "o", "r", "t", "a", "t", "i", "o", "n",
                           " ", "r", "e", "q", "u", "e", "s", "t">>, TRUE, FALSE),
                     Alt(<<"b", "u", "s", " ", "r", "o", "u", "t", "e">>, FALSE, TRUE)},
        skill |-> <<"L", "o", "g", "i", "s", "t", "i", "c", "s", " ", "C", "o", "o", "r", "d",
                    "i", "n", "a", "t", "i", "o", "n">>],
       [pattern |-> {Alt(<<"d", "e", "v", "i", "c", "e", " ", "r", "e", "t", "u", "r", "n">>, TRUE, FALSE), Alt(
                         <<"c", "h", "r", "o", "m", "e", "b", "o", "o", "k">>, FALSE, FALSE),
                     Alt(<<"l", "a", "p", "t", "o", "p">>, FALSE, TRUE)},
        skill |-> <<"D", "e", "v", "i", "c", "e", " ", "M", "a", "n", "a", "g", "e", "m", "e",
                    "n", "t">>],
       [pattern |-> {Alt(<<"p", "a", "r", "e", "n", "t", "-", "t", "e", "a", "c", "h", "e", "r",
                           " ", "c", "o", "n", "f", "e", "r", "e", "n", "c", "e">>, TRUE, FALSE),
                     Alt(<<"p", "a", "r", "e", "n", "t", " ", "t", "e", "a", "c", "h", "e", "r",
                           " ", "c", "o", "n", "f", "e", "r", "e", "n", "c", "e">>, TRUE, FALSE),
                     Alt(<<"p", "t", "c">>, FALSE, TRUE)},
        skill |-> <<"S", "c", "h", "e", "d", "u", "l", "i", "n", "g", " ", "&", " ", "C", "o",
                    "o", "r", "d", "i", "n", "a", "t", "i", "o", "n">>],
       [pattern |-> {Alt(<<"w", "o", "r", "k", "s", "h", "o", "p">>, TRUE, FALSE), Alt(
                         <<"t", "r", "a", "i", "n", "i", "n", "g", " ", "s", "e", "s", "s", "i",
                           "o", "n">>, FALSE, TRUE)},
        skill |-> <<"W", "o", "r", "k", "s", "h", "o", "p", " ", "P", "a", "r", "t", "i", "c",
                    "i", "p", "a", "t", "i", "o", "n">>],
       [pattern |-> {Alt(<<"a", "p", "p", "l", "i", "c", "a", "t", "i", "o", "n">>, TRUE, TRUE)},
        skill |-> <<"A", "p", "p", "l", "i", "c", "a", "t", "i", "o", "n", " ", "S", "u", "b",
                    "m", "i", "s", "s", "i", "o", "n">>],
       [pattern |-> {Alt(<<"d", "e", "a", "d", "l", "i", "n", "e">>, TRUE, FALSE), Alt(
                         <<"s", "u", "b", "m", "i", "t", " ", "b", "y">>, FALSE, FALSE),
                     Alt(<<"d", "u", "e">>, FALSE, TRUE)},
        skill |-> <<"D", "e", "a", "d", "l", "i", "n", "e", " ", "M", "a", "n", "a", "g", "e",
                    "m", "e", "n", "t">>],
       [pattern |-> {Alt(<<"r", "f", "p">>, TRUE, FALSE), Alt(
                         <<"p", "r", "o", "p", "o", "s", "a", "l">>, FALSE, FALSE),
                     Alt(<<"b", "r", "i", "e", "f">>, FALSE, TRUE)},
        skill |-> <<"R", "F", "P", " ", "R", "e", "v", "i", "e", "w">>],
       [pattern |-> {Alt(<<"r", "e", "q", "u", "i", "r", "e", "m", "e", "n", "t">>, TRUE, FALSE), Alt(
                         <<"e", "l", "i", "g", "i", "b", "i", "l", "i", "t", "y">>, FALSE, TRUE),
                     Alt(<<"e", "l", "i", "g", "i", "b", "l", "e">>, FALSE, TRUE)},
        skill |-> <<"R", "e", "q", "u", "i", "r", "e", "m", "e", "n", "t", "s", " ", "C", "o",
                    "m", "p", "l", "i", "a", "n", "c", "e">>],
       [pattern |-> {Alt(<<"p", "o", "l", "i", "c", "y">>, TRUE, FALSE), Alt(
                         <<"g", "u", "i", "d", "e", "l", "i", "n", "e">>, FALSE, TRUE)},
        skill |-> <<"P", "o", "l", "i", "c", "y", " ", "C", "o", "m", "p", "r", "e", "h", "e",
                    "n", "s", "i", "o", "n">>],
       [pattern |-> {Alt(<<"d", "o", "c", "u", "m", "e", "n", "t", "a", "t", "i", "o", "n">>, TRUE, FALSE), Alt(
                         <<"r", "e", "c", "o", "r", "d", "s">>, FALSE, TRUE)},
        skill |-> <<"D", "o", "c", "u", "m", "e", "n", "t", "a", "t", "i", "o", "n", " ", "M",
                    "a", "n", "a", "g", "e", "m", "e", "n", "t">>],
       [pattern |-> {Alt(<<"d", "a", "t", "a">>, TRUE, TRUE)},
        skill |-> <<"D", "a", "t", "a", " ", "H", "a", "n", "d", "l", "i", "n", "g">>],
       [pattern |-> {Alt(<<"s", "a", "l", "e", "s", "f", "o", "r", "c", "e">>, TRUE, TRUE)},
        skill |-> <<"S", "a", "l", "e", "s", "f", "o", "r", "c", "e", " ", "L", "i", "t", "e",
                    "r", "a", "c", "y">>],
       [pattern |-> {Alt(<<"a", "i">>, TRUE, FALSE), Alt(<<"n", "l", "p">>, FALSE, FALSE),
                     Alt(<<"s", "u", "m", "m", "a", "r", "i", "s">>, FALSE, TRUE), Alt(
                         <<"s", "u", "m", "m", "a", "r", "i", "s", "e">>, FALSE, TRUE),
                     Alt(<<"s", "u", "m", "m", "a", "r", "i", "z">>, FALSE, TRUE), Alt(
                         <<"s", "u", "m", "m", "a", "r", "i", "z", "e">>, FALSE, TRUE)},
        skill |-> <<"A", "I", "/", "N", "L", "P", " ", "L", "i", "t", "e", "r", "a", "c", "y">>] >>

DefaultSkills ==
    <<<<"D", "e", "a", "d", "l", "i", "n", "e", " ", "M", "a", "n", "a", "g", "e", "m", "e", "n",
        "t">>,
      <<"D", "o", "c", "u", "m", "e", "n", "t", "a", "t", "i", "o", "n", " ", "M", "a", "n", "a",
        "g", "e", "m", "e", "n", "t">>,
      <<"P", "o", "l", "i", "c", "y", " ", "C", "o", "m", "p", "r", "e", "h", "e", "n", "s", "i",
        "o", "n">>>>

MaxSkills == 15

\* text + "\n" + "\n".join(requirements or [])
SkillPool(txt, reqs) == txt \o <<"\n">> \o Join(reqs, <<"\n">>)

OrDefaultMissing(out) == out

\* if not out: out = [the three default labels]
OrDefault(out) == IF out = <<>> THEN DefaultSkills ELSE out

extract_skills(txt, reqs) ==
    LET Hit(pool) == SortedSeq({i \in 1..Len(SKILL_DICTIONARY) :
                                  Search(SKILL_DICTIONARY[i].pattern, pool)})
        Found(hit) == [k \in 1..Len(hit) |-> SKILL_DICTIONARY[hit[k]].skill]
    IN  Take(OrDefault(DedupExact(Found(Hit(SkillPool(txt, reqs))))), MaxSkills)

----------------------------------------------------------------------------
(* Inputs of the skill runs                                                *)

SkillLines ==
    {<<"B", "r", "i", "n", "g", " ", "t", "h", "e", " ", "v", "a", "c", "c", "i", "n", "e", " ",
       "c", "a", "r", "d">>,
     <<"F", "i", "e", "l", "d", " ", "t", "r", "i", "p", " ", "o", "n", " ", "F", "r", "i", "d",
       "a", "y">>,
     <<"S", "e", "e", " ", "t", "h", "e", " ", "R", "F", "P", " ", "d", "a", "t", "a">>,
     <<"R", "e", "t", "u", "r", "n", " ", "t", "h", "e", " ", "C", "h", "r", "o", "m", "e", "b",
       "o", "o", "k">>,
     <<"S", "c", "h", "o", "o", "l", " ", "p", "o", "l", "i", "c", "y", " ", "a", "n", "d", " ",
       "g", "u", "i", "d", "e", "l", "i", "n", "e", "s">>,
     <<"L", "u", "n", "c", "h", " ", "m", "e", "n", "u">>,
     <<"v", "a", "c", "c", "i", "n", "e", " ", "c", "o", "n", "s", "e", "n", "t", " ", "f", "o",
       "r", "m", " ", "b", "u", "s", " ", "r", "o", "u", "t", "e", " ", "l", "a", "p", "t", "o",
       "p", " ", "p", "t", "c", " ", "w", "o", "r", "k", "s", "h", "o", "p", " ", "a", "p", "p",
       "l", "i", "c", "a", "t", "i", "o", "n", " ", "d", "u", "e", " ", "r", "f", "p">>,
     <<"r", "e", "q", "u", "i", "r", "e", "m", "e", "n", "t", " ", "p", "o", "l", "i", "c", "y",
       " ", "r", "e", "c", "o", "r", "d", "s", " ", "d", "a", "t", "a", " ", "s", "a", "l", "e",
       "s", "f", "o", "r", "c", "e", " ", "n", "l", "p">>}

SkillReqs ==
    {<<>>, <<<<"P", "r", "o", "v", "i", "d", "e", " ", "p", "r", "o", "o", "f">>>>, <<
             <<"S", "u", "b", "m", "i", "t", " ", "b", "y", " ", "n", "o", "o", "n">>,
             <<"K", "e", "e", "p", " ", "r", "e", "c", "o", "r", "d", "s">>>>}

MaxSkillLines == 2

InitSkills ==
    /\ pc = "start"
    /\ text \in LinesOf(SkillLines, MaxSkillLines)
    /\ requirements \in SkillReqs
    /\ max_sentences = 5
    /\ summary = <<>>
    /\ top_n = 6
    /\ key_points = <<>>
    /\ skills = <<>>
    /\ deadlines = <<<<>>, <<>>>>
    /\ next_steps = <<>>
    /\ source_name = <<>>
    /\ now = <<>>
    /\ brief = <<>>
    /\ md = <<>>
    /\ uploaded = NoFile
    /\ with_styling = TRUE
    /\ form = NoForm
    /\ clicked = NoClick
    /\ screen = {}
    /\ receipts = <<>>

ExtractSkills ==
    /\ pc = "start"
    /\ skills' = extract_skills(text, requirements)
    /\ pc' = "skills"
    /\ UNCHANGED <<text, max_sentences, summary, top_n, key_points, requirements, deadlines,
                   next_steps, source_name, now, brief, md, uploaded, with_styling, form,
                   clicked, screen, receipts>>

NextSkills == ExtractSkills

SpecSkills == InitSkills /\ [][NextSkills]_vars

\* C8: extract_skills never returns an empty list; when no pattern of the table
\* matches the text joined with the requirement lines it returns exactly the three
\* default labels in order; otherwise it returns the labels of exactly the matching
\* patterns, each once, in table order, at most 15.
C8_SkillsNeverEmpty ==
    pc = "skills" =>
        LET pool == SkillPool(text, requirements)
            matching == {i \in 1..Len(SKILL_DICTIONARY) :
                            Search(SKILL_DICTIONARY[i].pattern, pool)}
            row(k) == CHOOSE i \in 1..Len(SKILL_DICTIONARY) :
                          SKILL_DICTIONARY[i].skill = skills[k]
        IN  /\ skills # <<>>
            /\ Len(skills) <= MaxSkills
            /\ matching = {} =>
                   skills = <<<<"D", "e", "a", "d", "l", "i", "n", "e", " ", "M", "a", "n", "a",
                                "g", "e", "m", "e", "n", "t">>,
                              <<"D", "o", "c", "u", "m", "e", "n", "t", "a", "t", "i", "o", "n",
                                " ", "M", "a", "n", "a", "g", "e", "m", "e", "n", "t">>,
                              <<"P", "o", "l", "i", "c", "y", " ", "C", "o", "m", "p", "r", "e",
                                "h", "e", "n", "s", "i", "o", "n">>>>
            /\ matching # {} =>
                   /\ {skills[k] : k \in 1..Len(skills)}
                          = {SKILL_DICTIONARY[i].skill : i \in matching}
                   /\ \A k \in 1..Len(skills), j \in 1..Len(skills) :
                          k < j => row(k) < row(j)

\* a run on which no pattern matched and the default came out
C8_Witness ==
    /\ pc = "skills"
    /\ text # <<>>
    /\ \A i \in 1..Len(SKILL_DICTIONARY) :
           ~Search(SKILL_DICTIONARY[i].pattern, SkillPool(text, requirements))
    /\ Len(skills) = 3

\* a run on which all 15 patterns matched
C8_WitnessAll ==
    /\ pc = "skills"
    /\ Len(skills) = MaxSkills

----------------------------------------------------------------------------
(* Deadlines                                                               *)

\* r"\b(deadline|due|submit by|no later than)\b"
DeadlinePattern ==
    {Word(<<"d", "e", "a", "d", "l", "i", "n", "e">>), Word(<<"d", "u", "e">>), Word(
          <<"s", "u", "b", "m", "i", "t", " ", "b", "y">>), Word(
          <<"n", "o", " ", "l", "a", "t", "e", "r", " ", "t", "h", "a", "n">>)}

\* how many characters of cs follow each other in s from position i on
RunLen(s, i, cs) ==
    LET stop == {j \in i..Len(s) : s[j] \notin cs}
    IN  IF i > Len(s) THEN 0
        ELSE IF stop = {} THEN Len(s) - i + 1
        ELSE Min(stop) - i

\* \d{1,2}[/-]\d{1,2}[/-]\d{2,4}\b matched at i: the position of its last
\* character, 0 without a match. Every repetition is followed by a character it
\* cannot match, so the greedy match is the only one.
NumericDateEnd(s, i) ==
    LET a == RunLen(s, i, Digits)
        p1 == i + a
        b == RunLen(s, p1 + 1, Digits)
        p2 == p1 + 1 + b
        c == RunLen(s, p2 + 1, Digits)
        e == p2 + c
    IN  IF /\ a \in 1..2
           /\ p1 <= Len(s) /\ s[p1] \in {"/", "-"}
           /\ b \in 1..2
           /\ p2 <= Len(s) /\ s[p2] \in {"/", "-"}
           /\ c \in 2..4
           /\ Boundary(s, e + 1)
        THEN e ELSE 0

\* [A-Za-z]{3,9}\s+\d{1,2},?\s+\d{4}\b matched at i, likewise
MonthDateEnd(s, i) ==
    LET l == RunLen(s, i, Letters)
        w1 == RunLen(s, i + l, Whitespace)
        d == RunLen(s, i + l + w1, Digits)
        q == i + l + w1 + d
        comma == IF q <= Len(s) /\ s[q] = "," THEN 1 ELSE 0
        w2 == RunLen(s, q + comma, Whitespace)
        y == RunLen(s, q + comma + w2, Digits)
        e == q + comma + w2 + 3
    IN  IF /\ l \in 3..9
           /\ w1 >= 1
           /\ d \in 1..2
           /\ w2 >= 1
           /\ y = 4
           /\ Boundary(s, e + 1)
        THEN e ELSE 0

DateMatchEnd(s, i) ==
    IF ~Boundary(s, i) THEN 0
    ELSE IF s[i] \in Digits THEN NumericDateEnd(s, i)
    ELSE IF s[i] \in Letters THEN MonthDateEnd(s, i)
    ELSE 0

RECURSIVE FindDatesFrom(_, _)
\* the matches that start at position i or later: the scan moves on to the first
\* position where the pattern matches and resumes after that match
FindDatesFrom(s, i) ==
    LET Hit(b, e) == <<SubSeq(s, b, e)>> \o FindDatesFrom(s, e + 1)
        First(at) == IF at = {} THEN <<>> ELSE Hit(Min(at), DateMatchEnd(s, Min(at)))
    IN  First({j \in i..Len(s) : DateMatchEnd(s, j) # 0})

\* re.findall of the date pattern: the matches, leftmost first, not overlapping
FindDateHits(s) == FindDatesFrom(s, 1)

DigitChars == <<"0", "1", "2", "3", "4", "5", "6", "7", "8", "9">>

DigitValue(c) == (CHOOSE k \in 1..10 : DigitChars[k] = c) - 1

RECURSIVE Number(_)
\* int(digits)
Number(ds) ==
    IF ds = <<>> THEN 0 ELSE 10 * Number(SubSeq(ds, 1, Len(ds) - 1)) + DigitValue(ds[Len(ds)])

\* the month names dateutil's parserinfo knows, lower-cased
MonthNames ==
    << {<<"j", "a", "n">>, <<"j", "a", "n", "u", "a", "r", "y">>}, {<<"f", "e", "b">>,
        <<"f", "e", "b", "r", "u", "a", "r", "y">>}, {<<"m", "a", "r">>,
        <<"m", "a", "r", "c", "h">>},
       {<<"a", "p", "r">>, <<"a", "p", "r", "i", "l">>}, {<<"m", "a", "y">>}, {<<"j", "u", "n">>,
        <<"j", "u", "n", "e">>}, {<<"j", "u", "l">>, <<"j", "u", "l", "y">>},
       {<<"a", "u", "g">>, <<"a", "u", "g", "u", "s", "t">>}, {<<"s", "e", "p">>,
        <<"s", "e", "p", "t">>, <<"s", "e", "p", "t", "e", "m", "b", "e", "r">>}, {
        <<"o", "c", "t">>, <<"o", "c", "t", "o", "b", "e", "r">>},
       {<<"n", "o", "v">>, <<"n", "o", "v", "e", "m", "b", "e", "r">>}, {<<"d", "e", "c">>,
        <<"d", "e", "c", "e", "m", "b", "e", "r">>} >>

\* %b
MonthAbbr ==
    << <<"J", "a", "n">>, <<"F", "e", "b">>, <<"M", "a", "r">>, <<"A", "p", "r">>,
       <<"M", "a", "y">>, <<"J", "u", "n">>, <<"J", "u", "l">>, <<"A", "u", "g">>,
       <<"S", "e", "p">>, <<"O", "c", "t">>,
       <<"N", "o", "v">>, <<"D", "e", "c">> >>

\* the weekday names dateutil's parserinfo knows, lower-cased, Monday first
WeekdayNames ==
    << {<<"m", "o", "n">>, <<"m", "o", "n", "d", "a", "y">>}, {<<"t", "u", "e">>,
        <<"t", "u", "e", "s", "d", "a", "y">>}, {<<"w", "e", "d">>,
        <<"w", "e", "d", "n", "e", "s", "d", "a", "y">>},
       {<<"t", "h", "u">>, <<"t", "h", "u", "r", "s", "d", "a", "y">>}, {<<"f", "r", "i">>,
        <<"f", "r", "i", "d", "a", "y">>}, {<<"s", "a", "t">>,
        <<"s", "a", "t", "u", "r", "d", "a", "y">>},
       {<<"s", "u", "n">>, <<"s", "u", "n", "d", "a", "y">>} >>

IsLeap(y) == (y % 4 = 0 /\ y % 100 # 0) \/ y % 400 = 0

DaysInMonth(y, m) ==
    IF m = 2 THEN (IF IsLeap(y) THEN 29 ELSE 28)
    ELSE IF m \in {4, 6, 9, 11} THEN 30 ELSE 31

DaysBeforeMonth == <<0, 31, 59, 90, 120, 151, 181, 212, 243, 273, 304, 334>>

\* date.toordinal(): day 1 is January 1 of year 1
Ordinal(dt) ==
    365 * (dt[1] - 1) + ((dt[1] - 1) \div 4) - ((dt[1] - 1) \div 100) + ((dt[1] - 1) \div 400)
        + DaysBeforeMonth[dt[2]] + (IF dt[2] > 2 /\ IsLeap(dt[1]) THEN 1 ELSE 0) + dt[3]

\* date.weekday(): Monday is 0
Weekday(dt) == (Ordinal(dt) + 6) % 7

MaxYear == 9999

\* what the parse gives where dateutil raises
ParseFailure == <<>>

\* a field of the parse result that the string did not give
Unset == -1

\* datetime.replace(year, month, day), which raises outside the calendar
ValidDate(y, m, d) ==
    IF y \in 1..MaxYear /\ m \in 1..12 /\ d >= 1 /\ d <= DaysInMonth(y, m)
    THEN <<y, m, d>> ELSE ParseFailure

\* the day after dt; adding a day to the last day of year 9999 overflows
NextDay(dt) ==
    IF dt[3] < DaysInMonth(dt[1], dt[2]) THEN <<dt[1], dt[2], dt[3] + 1>>
    ELSE IF dt[2] < 12 THEN <<dt[1], dt[2] + 1, 1>>
    ELSE IF dt[1] < MaxYear THEN <<dt[1] + 1, 1, 1>>
    ELSE ParseFailure

RECURSIVE AddDays(_, _)
AddDays(dt, k) == IF k = 0 \/ dt = ParseFailure THEN dt ELSE AddDays(NextDay(dt), k - 1)

\* parserinfo.convertyear: a year below 100 that came without its century is put
\* within 50 years of the current year t[1]
convertyear(year, century_specified, t) ==
    LET Near(y) == IF y >= t[1] + 50 THEN y - 100
                   ELSE IF y < t[1] - 50 THEN y + 100 ELSE y
    IN  IF year < 100 /\ ~century_specified THEN Near(year + 100 * (t[1] \div 100)) ELSE year

\* _ymd.resolve_ymd with the default dayfirst and yearfirst: <<year, month, day>>
\* of the members the tokens gave, Unset for a field they leave open. The members
\* are two numbers (after a word that is no month name), or a named month and two
\* numbers, or three numbers; year_labelled says that the last member was
\* recognised as a year when it was appended.
resolve_ymd(ymd, month_named, year_labelled) ==
    IF Len(ymd) = 2
    THEN IF ymd[1] > 31 THEN <<ymd[1], ymd[2], Unset>>
         ELSE IF ymd[2] > 31 THEN <<ymd[2], ymd[1], Unset>>
         ELSE <<Unset, ymd[1], ymd[2]>>
    ELSE IF month_named
    THEN IF year_labelled \/ ymd[2] <= 31 THEN <<ymd[3], ymd[1], ymd[2]>>
         ELSE <<ymd[2], ymd[1], ymd[3]>>
    ELSE IF ymd[1] > 31 THEN <<ymd[1], ymd[2], ymd[3]>>
    ELSE IF ymd[1] > 12 THEN <<ymd[3], ymd[2], ymd[1]>>
    ELSE <<ymd[3], ymd[1], ymd[2]>>

\* parser._build_naive on the resolved fields res and the weekday the string
\* named (Unset for none): the fields replace those of today's date t, a default
\* day is cut to the length of the month, and a weekday without a day moves the
\* date to the next such weekday
build_naive(res, century_specified, weekday, t) ==
    LET Shift(dt) ==
            IF dt = ParseFailure \/ weekday = Unset \/ res[3] # Unset THEN dt
            ELSE AddDays(dt, (7 - Weekday(dt) + weekday) % 7)
        Replace(year, month) ==
            IF res[3] # Unset THEN ValidDate(year, month, res[3])
            ELSE IF month \notin 1..12 THEN ParseFailure
            ELSE ValidDate(year, month, Min({t[3], DaysInMonth(year, month)}))
    IN  Shift(Replace(IF res[1] = Unset THEN t[1]
                      ELSE convertyear(res[1], century_specified, t),
                      IF res[2] = Unset THEN t[2] ELSE res[2]))

\* dateparser.parse(d, fuzzy=True) on a match d of the date pattern when the
\* clock reads t: the date as <<year, month, day>>, or ParseFailure where dateutil
\* raises. In a numeric date with one separator the three numbers are appended as
\* strings, and a last one of more than two digits is a year with its century; with
\* two different separators the last number is appended as a value, and is such a
\* year when above 100. The word of the other form is a month name, or a weekday
\* name, or is skipped by the fuzzy parse; its numbers are appended as values.
DateParse(d, t) ==
    LET Numeric(a, b, c) ==
            LET Labelled(lab) ==
                    build_naive(resolve_ymd(<<Number(a), Number(b), Number(c)>>, FALSE, lab),
                                lab, Unset, t)
            IN  Labelled(IF d[Len(a) + 1] = d[Len(a) + Len(b) + 2] THEN Len(c) > 2
                         ELSE Number(c) > 100)
        Worded(word, v1, v2) ==
            LET named == {m \in 1..12 : word \in MonthNames[m]}
                days == {w \in 1..7 : word \in WeekdayNames[w]}
            IN  IF days # {}
                THEN build_naive(resolve_ymd(<<v1, v2>>, FALSE, v2 > 100), v2 > 100,
                                 (CHOOSE w \in days : TRUE) - 1, t)
                ELSE IF named # {}
                THEN build_naive(resolve_ymd(<<CHOOSE m \in named : TRUE, v1, v2>>,
                                             TRUE, v2 > 100), v2 > 100, Unset, t)
                ELSE build_naive(resolve_ymd(<<v1, v2>>, FALSE, v2 > 100), v2 > 100,
                                 Unset, t)
        Fields(nums) ==
            IF d[1] \in Digits
            THEN Numeric(SubSeq(d, nums[1][1], nums[1][2]), SubSeq(d, nums[2][1], nums[2][2]),
                         SubSeq(d, nums[3][1], nums[3][2]))
            ELSE Worded(Lower(SubSeq(d, 1, RunLen(d, 1, Letters))),
                        Number(SubSeq(d, nums[1][1], nums[1][2])),
                        Number(SubSeq(d, nums[2][1], nums[2][2])))
    IN  Fields(Runs(d, Digits))

Earlier(x, y) ==
    \/ x[1] < y[1]
    \/ x[1] = y[1] /\ x[2] < y[2]
    \/ x[1] = y[1] /\ x[2] = y[2] /\ x[3] < y[3]

SortDatesUnsorted(ds) ==
    LET first == SortedSeq({i \in 1..Len(ds) : \A j \in 1..(i - 1) : ds[j] # ds[i]})
    IN  [k \in 1..Len(first) |-> ds[first[k]]]

\* sorted(set(parsed_dates))
SortDates(ds) ==
    LET S == {ds[i] : i \in 1..Len(ds)}
    IN  [k \in 1..Cardinality(S) |->
            CHOOSE x \in S : Cardinality({y \in S : Earlier(y, x)}) = k - 1]

TwoDigits(n) == <<DigitChars[((n \div 10) % 10) + 1], DigitChars[(n % 10) + 1]>>

RECURSIVE Decimal(_)
\* str(n) of a natural number
Decimal(n) ==
    IF n < 10 THEN <<DigitChars[n + 1]>> ELSE Decimal(n \div 10) \o <<DigitChars[(n % 10) + 1]>>

\* dt.strftime("%b %d, %Y"); the C library's %Y does not pad a year below 1000
FormatDate(dt) ==
    MonthAbbr[dt[2]] \o <<" ">> \o TwoDigits(dt[3]) \o <<",", " ">> \o Decimal(dt[1])

\* the pair (hit_lines, pretty), when the clock reads t
find_deadlines(txt, t) ==
    LET Stripped(raw) == NonEmpty([i \in 1..Len(raw) |-> Strip(raw[i])])
        HitLines(lines) ==
            Filter(lines, {i \in 1..Len(lines) : Search(DeadlinePattern, lines[i])})
        \* the matches dateutil parses; the others are skipped
        Parsed(date_hits) ==
            Filter(date_hits, {i \in 1..Len(date_hits) :
                                  DateParse(date_hits[i], t) # ParseFailure})
        ParsedDates(parsed) == SortDates([i \in 1..Len(parsed) |-> DateParse(parsed[i], t)])
        Pretty(parsed_dates) == [i \in 1..Len(parsed_dates) |-> FormatDate(parsed_dates[i])]
    IN  <<HitLines(Stripped(SplitLines(txt))), Pretty(ParsedDates(Parsed(FindDateHits(txt))))>>

----------------------------------------------------------------------------
(* Brief: next steps                                                       *)

CalendarPrefix == <<"A", "d", "d", " ", "k", "e", "y", " ", "d", "a", "t", "e", "(", "s", ")",
                    " ", "t", "o", " ", "c", "a", "l", "e", "n", "d", "a", "r", ":", " ">>

CalendarStepAllDates(pretty) == CalendarPrefix \o Join(pretty, <<",", " ">>) \o <<".">>

\* f"Add key date(s) to calendar: {', '.join(deadlines[1][:3])}."
CalendarStep(pretty) == CalendarPrefix \o Join(Take(pretty, 3), <<",", " ">>) \o <<".">>

GatherStep ==
    <<"G", "a", "t", "h", "e", "r", " ", "r", "e", "q", "u", "i", "r", "e", "d", " ", "d", "o",
      "c", "u", "m", "e", "n", "t", "s", "/", "i", "t", "e", "m", "s", " ", "l", "i", "s", "t",
      "e", "d", " ", "a", "b", "o", "v", "e", " ", "a", "n", "d", " ", "u", "p", "l", "o", "a",
      "d", " ", "4", "8", " ", "h", "o", "u", "r", "s", " ", "b", "e", "f", "o", "r", "e", " ",
      "t", "h", "e", " ", "d", "e", "a", "d", "l", "i", "n", "e", ".">>

GenericSteps ==
    << <<"E", "m", "a", "i", "l", " ", "t", "e", "a", "c", "h", "e", "r", "/", "a", "d", "m",
         "i", "n", " ", "w", "i", "t", "h", " ", "a", "n", "y", " ", "c", "l", "a", "r", "i", "f",
         "y", "i", "n", "g", " ", "q", "u", "e", "s", "t", "i", "o", "n", "s", " ", "(", "l", "i",
         "m", "i", "t", " ", "t", "o", " ", "3", " ", "b", "u", "l", "l", "e", "t", "s", ")",
         ".">>,
       <<"C", "o", "n", "f", "i", "r", "m", " ", "s", "u", "b", "m", "i", "s", "s", "i", "o",
         "n", " ", "m", "e", "t", "h", "o", "d", " ", "(", "p", "o", "r", "t", "a", "l", ",", " ",
         "e", "m", "a", "i", "l", ",", " ", "o", "r", " ", "p", "r", "i", "n", "t", "e", "d", " ",
         "c", "o", "p", "y", ")", " ", "a", "n", "d", " ", "s", "a", "v", "e", " ", "t", "h", "e",
         " ", "c", "o", "n", "f", "i", "r", "m", "a", "t", "i", "o", "n", ".">>,
       <<"S", "c", "h", "e", "d", "u", "l", "e", " ", "a", " ", "1", "5", "-", "m", "i", "n",
         "u", "t", "e", " ", "r", "e", "v", "i", "e", "w", " ", "w", "i", "t", "h", " ", "y", "o",
         "u", "r", " ", "c", "h", "i", "l", "d", "/", "t", "e", "a", "m", " ", "t", "o", " ", "a",
         "l", "i", "g", "n", " ", "o", "n", " ", "w", "h", "a", "t", " ", "s", "u", "c", "c", "e",
         "s", "s", " ", "l", "o", "o", "k", "s", " ", "l", "i", "k", "e", ".">> >>

MaxSteps == 5

propose_next_steps_CapFour(reqs, dl) ==
    Take(DedupExact((IF dl[2] # <<>> THEN <<CalendarStep(dl[2])>> ELSE <<>>)
                        \o (IF reqs # <<>> THEN <<GatherStep>> ELSE <<>>)
                        \o GenericSteps), MaxSteps - 1)

\* dl is the pair (hit_lines, pretty): deadlines[1] of the code is dl[2] here
propose_next_steps(reqs, dl) ==
    LET steps == (IF dl[2] # <<>> THEN <<CalendarStep(dl[2])>> ELSE <<>>)
                    \o (IF reqs # <<>> THEN <<GatherStep>> ELSE <<>>)
                    \o GenericSteps
    IN  Take(DedupExact(steps), MaxSteps)

----------------------------------------------------------------------------
(* Inputs of the next-step runs                                            *)

StepReqItems == {<<"P", "r", "o", "v", "i", "d", "e", " ", "p", "r", "o", "o", "f">>,
                 <<"Y", "o", "u", " ", "m", "u", "s", "t", " ", "s", "u", "b", "m", "i", "t",
                   " ", "t", "h", "e", " ", "f", "o", "r", "m">>,
                 <<"R", "e", "t", "u", "r", "n", " ", "i", "t", " ", "b", "y", " ", "F", "r",
                   "i", "d", "a", "y">>}

\* formatted dates in ascending order, as find_deadlines returns them
StepDates ==
    <<<<"J", "a", "n", " ", "0", "5", ",", " ", "2", "0", "2", "4">>,
      <<"D", "e", "c", " ", "2", "5", ",", " ", "2", "0", "2", "4">>,
      <<"M", "a", "r", " ", "0", "3", ",", " ", "2", "0", "2", "5">>,
      <<"F", "e", "b", " ", "2", "9", ",", " ", "2", "0", "7", "6">>,
      <<"J", "a", "n", " ", "0", "2", ",", " ", "1", "2", "3">>>>

MaxStepReqs == 2

MaxStepDates == 4

SeqsOf(S, n) == UNION {[1..k -> S] : k \in 0..n}

\* requirement lists as find_requirements returns them: no line twice
StepReqInputs ==
    {r \in SeqsOf(StepReqItems, MaxStepReqs) : \A i, j \in 1..Len(r) : r[i] = r[j] => i = j}

StepDeadlineInputs ==
    {<<h, Filter(StepDates, S)>> :
        h \in {<<>>, <<<<"F", "o", "r", "m", "s", " ", "d", "u", "e", " ", "F", "r", "i", "d",
                         "a", "y">>>>},
        S \in {T \in SUBSET (1..Len(StepDates)) : Cardinality(T) <= MaxStepDates}}

InitSteps ==
    /\ pc = "start"
    /\ requirements \in StepReqInputs
    /\ deadlines \in StepDeadlineInputs
    /\ text = <<>>
    /\ max_sentences = 5
    /\ summary = <<>>
    /\ top_n = 6
    /\ key_points = <<>>
    /\ skills = <<>>
    /\ next_steps = <<>>
    /\ source_name = <<>>
    /\ now = <<>>
    /\ brief = <<>>
    /\ md = <<>>
    /\ uploaded = NoFile
    /\ with_styling = TRUE
    /\ form = NoForm
    /\ clicked = NoClick
    /\ screen = {}
    /\ receipts = <<>>

ProposeNextSteps ==
    /\ pc = "start"
    /\ next_steps' = propose_next_steps(requirements, deadlines)
    /\ pc' = "steps"
    /\ UNCHANGED <<text, max_sentences, summary, top_n, key_points, requirements, skills,
                   deadlines, source_name, now, brief, md, uploaded, with_styling, form,
                   clicked, screen, receipts>>

NextSteps == ProposeNextSteps

SpecSteps == InitSteps /\ [][NextSteps]_vars

Elements(xs) == {xs[i] : i \in 1..Len(xs)}

\* C9 as stated: there are inputs, a requirements list and a deadlines pair, for
\* which at least one of the three generic steps is missing from the list
\* propose_next_steps returns. The inputs range over all those of the runs; the
\* statement is read once a run has returned.
C9_AsStated ==
    pc = "steps" =>
        \E r \in StepReqInputs, d \in StepDeadlineInputs :
            \E g \in 1..3 : GenericSteps[g] \notin Elements(propose_next_steps(r, d))

\* C9 amended: no generic step is ever dropped. The list built before the cap holds
\* at most the two conditional steps and the three generic steps, all different, so
\* the returned list always ends with the three generic steps in their order and
\* has at most 5 entries.
C9_GenericStepsKept ==
    pc = "steps" =>
        LET n == Len(next_steps)
        IN  /\ n \in 3..5
            /\ SubSeq(next_steps, n - 2, n) = GenericSteps

\* both conditional steps were emitted and the list is at the cap
C9_Witness ==
    /\ pc = "steps"
    /\ Len(deadlines[2]) > 3
    /\ requirements # <<>>
    /\ Len(next_steps) = MaxSteps

----------------------------------------------------------------------------
(* Brief and its rendering                                                 *)

\* a Python value with its type: brief_to_markdown asks isinstance(val, list)
Str(v) == [str |-> v]

List(v) == [list |-> v]

IsList(val) == "list" \in DOMAIN val

Sections ==
    << <<"E", "x", "e", "c", "u", "t", "i", "v", "e", " ", "S", "u", "m", "m", "a", "r", "y">>,
       <<"K", "e", "y", " ", "P", "o", "i", "n", "t", "s">>,
       <<"D", "e", "a", "d", "l", "i", "n", "e", "s">>,
       <<"R", "e", "q", "u", "i", "r", "e", "m", "e", "n", "t", "s">>,
       <<"N", "e", "x", "t", " ", "S", "t", "e", "p", "s">> >>

NoSummary == <<"N", "o", "t", " ", "e", "n", "o", "u", "g", "h", " ", "c", "o", "n", "t", "e",
               "n", "t", " ", "t", "o", " ", "s", "u", "m", "m", "a", "r", "i", "z", "e", ".">>

make_brief(txt, t) ==
    LET Brief(exec_summary, found, reqs) ==
            (Sections[1] :> Str(IF exec_summary # <<>> THEN exec_summary ELSE NoSummary))
            @@ (Sections[2] :> List(find_key_points(txt, 6)))
            @@ (Sections[3] :> List(IF found[2] # <<>> THEN found[2] ELSE Take(found[1], 3)))
            @@ (Sections[4] :> List(reqs))
            @@ (Sections[5] :> List(propose_next_steps(reqs, found)))
    IN  Brief(summarize_text(txt, 5), find_deadlines(txt, t), find_requirements(txt))

BRAND_NOTE == <<"S", "k", "i", "l", "l", "s", "-", "F", "i", "r", "s", "t", " ", "B", "l", "u",
                "e", "p", "r", "i", "n", "t", " ", "u2022", " ", "F", "a", "m", "i", "l", "i", "e",
                "s", " ", "u2022", " ", "T", "e", "a", "c", "h", "e", "r", "s", " ", "u2022", " ",
                "O", "r", "g", "s">>

NoneFound == <<"_", "N", "o", "n", "e", " ", "f", "o", "u", "n", "d", ".", "_">>

FourDigits(n) == TwoDigits(n \div 100) \o TwoDigits(n % 100)

\* t.strftime("%Y-%m-%d %H:%M") of a clock value <<year, month, day, hour, minute, second>>
FormatMinute(t) ==
    FourDigits(t[1]) \o <<"-">> \o TwoDigits(t[2]) \o <<"-">> \o TwoDigits(t[3])
        \o <<" ">> \o TwoDigits(t[4]) \o <<":">> \o TwoDigits(t[5])

\* the lines brief_to_markdown appends for one section
SectionLines(section, val) ==
    <<<<"#", "#", " ">> \o section>>
        \o (IF IsList(val)
            THEN IF val.list = <<>> THEN <<NoneFound>>
                 ELSE [i \in 1..Len(val.list) |-> <<"-", " ">> \o val.list[i]]
            ELSE <<IF val.str # <<>> THEN val.str ELSE NoneFound>>)
        \o <<<<>>>>

\* brief_to_markdown with the clock value its datetime.now() call returned
brief_to_markdown(b, name, t) ==
    LET head == <<"#", " ", "1", "-", "P", "a", "g", "e", " ", "A", "c", "t", "i", "o", "n", " ",
                  "B", "r", "i", "e", "f", "\n", "*", "S", "o", "u", "r", "c", "e", ":", "*", " ",
                  "*", "*">> \o name
                    \o <<"*", "*", " ", " ", "\n", "*", "G", "e", "n", "e", "r", "a", "t", "e",
                         "d", ":", "*", " ">> \o FormatMinute(t) \o <<"\n">>
        body == Concat([i \in 1..Len(Sections) |-> SectionLines(Sections[i], b[Sections[i]])])
    IN  Join(<<head>> \o body \o <<<<"-", "-", "-", "\n">> \o BRAND_NOTE>>, <<"\n">>)

----------------------------------------------------------------------------
(* Inputs of the brief runs                                                *)

BriefChunks ==
    {<<"S", "u", "b", "m", "i", "t", " ", "t", "h", "e", " ", "f", "o", "r", "m", " ", "b", "y",
       " ", "3", "/", "3", "/", "2", "0", "2", "5", " ", "o", "r", " ", "2", "-", "2", "9", "/",
       "7", "6", ".", "\n">>,
     <<"F", "o", "r", "m", "s", " ", "a", "r", "e", " ", "d", "u", "e", " ", "J", "a", "n", " ",
       "5", ",", " ", "2", "0", "2", "4", "\n">>,
     <<"M", "a", "r", " ", "3", ",", " ", "2", "0", "2", "5", " ", "a", "n", "d", " ", "1", "2",
       "/", "2", "5", "/", "2", "0", "2", "4", ".", " ">>,
     <<"P", "h", "o", "t", "o", "s", " ", "1", "3", "/", "4", "5", "/", "2", "0", "2", "4", "\n">>,
     <<"#", "#", " ", "N", "o", "t", "e", "s", " ", "a", "r", "e", " ", "d", "u", "e", "\n">>,
     <<"-", " ", "Y", "o", "u", " ", "m", "u", "s", "t", " ", "p", "r", "o", "v", "i", "d", "e",
       " ", "p", "r", "o", "o", "f", " ", "o", "f", " ", "r", "e", "s", "i", "d", "e", "n", "c",
       "y", " ", "t", "o", " ", "t", "h", "e", " ", "o", "f", "f", "i", "c", "e", ".", "\n">>,
     <<"d", "e", "a", "d", "l", "i", "n", "e", ":", " ", "n", "o", "o", "n", "\n", "n", "o", " ",
       "l", "a", "t", "e", "r", " ", "t", "h", "a", "n", " ", "F", "r", "i", "d", "a", "y", "\n",
       "s", "u", "b", "m", "i", "t", " ", "b", "y", " ", "m", "a", "i", "l", "\n">>,
     <<"M", "o", "n", " ", "2", ",", " ", "2", "0", "2", "4", " ">>}

MaxBriefChunks == 3

SourceNames == {<<"n", "e", "w", "s", ".", "t", "x", "t">>}

Clock == {<<2026, 11, 1, 15, 30, 0>>, <<2027, 1, 31, 3, 4, 5>>}

InitBrief ==
    /\ pc = "start"
    /\ text \in TextsOf(BriefChunks, MaxBriefChunks)
    /\ source_name \in SourceNames
    /\ max_sentences = 5
    /\ summary = <<>>
    /\ top_n = 6
    /\ key_points = <<>>
    /\ requirements = <<>>
    /\ skills = <<>>
    /\ deadlines = <<<<>>, <<>>>>
    /\ next_steps = <<>>
    /\ now = <<>>
    /\ brief = <<>>
    /\ md = <<>>
    /\ uploaded = NoFile
    /\ with_styling = TRUE
    /\ form = NoForm
    /\ clicked = NoClick
    /\ screen = {}
    /\ receipts = <<>>

MakeBrief ==
    /\ pc = "start"
    /\ \E t \in Clock :
           /\ now' = t
           /\ brief' = make_brief(text, t)
    /\ pc' = "brief"
    /\ UNCHANGED <<text, max_sentences, summary, top_n, key_points, requirements, skills,
                   deadlines, next_steps, source_name, md, uploaded, with_styling, form,
                   clicked, screen, receipts>>

BriefToMarkdown ==
    /\ pc = "brief"
    /\ \E t \in Clock :
           /\ now' = t
           /\ md' = brief_to_markdown(brief, source_name, t)
    /\ pc' = "markdown"
    /\ UNCHANGED <<text, max_sentences, summary, top_n, key_points, requirements, skills,
                   deadlines, next_steps, source_name, brief, uploaded, with_styling,
                   form, clicked, screen, receipts>>

NextBrief == MakeBrief \/ BriefToMarkdown

SpecBrief == InitBrief /\ [][NextBrief]_vars

\* the calendar dates that the date-like substrings of txt parse to
ParsedDateSet(txt, t) ==
    {DateParse(h, t) : h \in Elements(FindDateHits(txt))} \ {ParseFailure}

\* the k-th earliest date of a set of dates
KthEarliest(dates, k) ==
    CHOOSE x \in dates : Cardinality({y \in dates : Earlier(y, x)}) = k - 1

StartsWith(s, prefix) == Len(s) >= Len(prefix) /\ SubSeq(s, 1, Len(prefix)) = prefix

\* C4: when at least one date-like substring of the text parses to a date, the first
\* element of the brief's Next Steps is the calendar-reminder step and it names
\* exactly the min(3, n) chronologically earliest dates, formatted, in that order;
\* when none parses, no calendar-reminder step is among the Next Steps.
C4_CalendarStepFirst ==
    pc = "brief" =>
        LET dates == ParsedDateSet(text, now)
            n == Cardinality(dates)
            named == [k \in 1..(IF n < 3 THEN n ELSE 3) |-> FormatDate(KthEarliest(dates, k))]
            steps == brief[<<"N", "e", "x", "t", " ", "S", "t", "e", "p", "s">>].list
        IN  /\ n > 0 =>
                   /\ steps # <<>>
                   /\ steps[1] = <<"A", "d", "d", " ", "k", "e", "y", " ", "d", "a", "t", "e",
                                   "(", "s", ")", " ", "t", "o", " ", "c", "a", "l", "e", "n", "d",
                                   "a", "r", ":", " ">> \o Join(named, <<",", " ">>) \o <<".">>
            /\ n = 0 =>
                   \A i \in 1..Len(steps) : ~StartsWith(steps[i], <<"A", "d", "d", " ", "k", "e", "y", " ",
                                                                    "d", "a", "t", "e", "(", "s", ")">>)

\* a brief of a text with more than three dates, the first of them not the earliest
C4_Witness ==
    /\ pc = "brief"
    /\ Cardinality(ParsedDateSet(text, now)) > 3
    /\ DateParse(FindDateHits(text)[1], now) # KthEarliest(ParsedDateSet(text, now), 1)
    /\ StartsWith(brief[<<"N", "e", "x", "t", " ", "S", "t", "e", "p", "s">>].list[1], CalendarPrefix)

\* the lines of txt that name a deadline, stripped, in line order
DeadlineHitLines(txt) ==
    LET raw == SplitLines(txt)
        at == SortedSeq({i \in 1..Len(raw) :
                            Strip(raw[i]) # <<>> /\ Search(DeadlinePattern, Strip(raw[i]))})
    IN  [k \in 1..Len(at) |-> Strip(raw[at[k]])]

\* C5: the Deadlines field is, when at least one date-like substring parses, the
\* parsed dates, each calendar date once, in ascending chronological order
\* (formatted); when none parses it is the first at most 3 deadline-keyword lines
\* in line order, and empty when there are none either.
C5_DeadlinesField ==
    pc = "brief" =>
        LET dates == ParsedDateSet(text, now)
            n == Cardinality(dates)
            hits == DeadlineHitLines(text)
            field == brief[<<"D", "e", "a", "d", "l", "i", "n", "e", "s">>].list
        IN  /\ n > 0 => field = [k \in 1..n |-> FormatDate(KthEarliest(dates, k))]
            /\ n = 0 => field = SubSeq(hits, 1, IF Len(hits) < 3 THEN Len(hits) ELSE 3)

\* a brief of a text in which a date occurs twice and the dates are out of order
C5_Witness ==
    /\ pc = "brief"
    /\ Cardinality(ParsedDateSet(text, now)) >= 2
    /\ Len(FindDateHits(text)) > Cardinality(ParsedDateSet(text, now))
    /\ \A h \in Elements(FindDateHits(text)) : DateParse(h, now) # ParseFailure
    /\ DateParse(FindDateHits(text)[1], now) # KthEarliest(ParsedDateSet(text, now), 1)
    /\ Len(brief[<<"D", "e", "a", "d", "l", "i", "n", "e", "s">>].list) = Cardinality(ParsedDateSet(text, now))

\* a brief of a text without a parsed date and with more than three deadline lines
C5_WitnessFallback ==
    /\ pc = "brief"
    /\ ParsedDateSet(text, now) = {}
    /\ FindDateHits(text) # <<>>
    /\ Len(DeadlineHitLines(text)) > 3
    /\ Len(brief[<<"D", "e", "a", "d", "l", "i", "n", "e", "s">>].list) = 3

\* the pieces of s between line feeds, a last empty one included
SplitOnNewline(s) ==
    LET nl == SortedSeq({i \in 1..Len(s) : s[i] = "\n"})
        m == Len(nl)
        from(j) == IF j = 1 THEN 1 ELSE nl[j - 1] + 1
        upto(j) == IF j = m + 1 THEN Len(s) ELSE nl[j] - 1
    IN  [j \in 1..(m + 1) |-> SubSeq(s, from(j), upto(j))]

\* the names of the level-2 headers of a Markdown text: the lines that start "## "
HeaderNames(m) ==
    LET lines == SplitOnNewline(m)
        at == SortedSeq({i \in 1..Len(lines) : StartsWith(lines[i], <<"#", "#", " ">>)})
    IN  [k \in 1..Len(at) |-> SubSeq(lines[at[k]], 4, Len(lines[at[k]]))]

\* C7: for every brief make_brief produces, the level-2 header lines of its
\* rendering are exactly Executive Summary, Key Points, Deadlines, Requirements,
\* Next Steps, in that order, with no header line added by the field contents.
C7_FiveHeaders ==
    pc = "markdown" =>
        HeaderNames(md) = << <<"E", "x", "e", "c", "u", "t", "i", "v", "e", " ", "S", "u", "m",
                               "m", "a", "r", "y">>,
                             <<"K", "e", "y", " ", "P", "o", "i", "n", "t", "s">>,
                             <<"D", "e", "a", "d", "l", "i", "n", "e", "s">>,
                             <<"R", "e", "q", "u", "i", "r", "e", "m", "e", "n", "t", "s">>,
                             <<"N", "e", "x", "t", " ", "S", "t", "e", "p", "s">> >>

----------------------------------------------------------------------------
(* PDF/Text helpers                                                        *)

\* a page of a PDF as PdfReader gives it: its text, or a failing extract_text()
Page(txt) == [ok |-> TRUE, text |-> txt]

PageError == [ok |-> FALSE, text |-> <<>>]

extract_text_from_pdf(pages) ==
    Join([i \in 1..Len(pages) |-> IF pages[i].ok THEN pages[i].text ELSE <<>>], <<"\n">>)

RECURSIVE ReplaceFrom(_, _, _, _)
\* s from the end of the (k - 1)-th run of long on, each run of long replaced
ReplaceFrom(s, long, k, with) ==
    LET start == IF k = 1 THEN 1 ELSE long[k - 1][2] + 1
    IN  IF k > Len(long) THEN SubSeq(s, start, Len(s))
        ELSE SubSeq(s, start, long[k][1] - 1) \o with \o ReplaceFrom(s, long, k + 1, with)

\* re.sub over the maximal runs of characters of cs that are at least least long
ReplaceRuns(s, cs, least, with) ==
    LET Long(r) == Filter(r, {k \in 1..Len(r) : r[k][2] - r[k][1] + 1 >= least})
    IN  ReplaceFrom(s, Long(Runs(s, cs)), 1, with)

\* the NUL character is the atom "u0000"
clean_text(txt) ==
    ReplaceRuns(ReplaceRuns(Strip([i \in 1..Len(txt) |->
                                      IF txt[i] = "u0000" THEN " " ELSE txt[i]]),
                            {"\n"}, 3, <<"\n", "\n">>),
                {" ", "\t"}, 2, <<" ">>)

----------------------------------------------------------------------------
(* Skills receipt                                                          *)

\* t.isoformat() of a clock value with no microseconds
IsoFormat(t) ==
    FourDigits(t[1]) \o <<"-">> \o TwoDigits(t[2]) \o <<"-">> \o TwoDigits(t[3]) \o <<"T">>
        \o TwoDigits(t[4]) \o <<":">> \o TwoDigits(t[5]) \o <<":">> \o TwoDigits(t[6])

make_skills_receipt_row(doc_name, user_name, user_role, user_email, skills_selected, proof_note, t) ==
    [timestamp |-> IsoFormat(t),
     document |-> doc_name,
     name |-> user_name,
     role |-> user_role,
     email |-> user_email,
     skills |-> IF skills_selected # <<>> THEN Join(skills_selected, <<";", " ">>) ELSE <<>>,
     proof_note_or_link |-> proof_note]

----------------------------------------------------------------------------
(* UI: the script, run top to bottom once per widget interaction           *)

ShortText == 200

\* st.button(label): true only in the run its own click triggered
Button(label, trigger) == trigger = label

IsPdf(up) ==
    \/ up.type = "application/pdf"
    \/ LET n == Lower(up.name)
       IN  Len(n) >= 4 /\ SubSeq(n, Len(n) - 3, Len(n)) = <<".", "p", "d", "f">>

\* the text of the upload, cleaned
UploadedText(up) ==
    clean_text(IF IsPdf(up) THEN extract_text_from_pdf(up.pages) ELSE up.content)

\* the widgets of the skills form on a run that reaches them: the values the
\* browser holds for them (held: the form was on the page before this run),
\* else their defaults
FormWidgets(held, inferred_skills) ==
    IF held.shown THEN held
    ELSE [shown |-> TRUE,
          skills_selected |-> inferred_skills,
          custom_skill |-> <<>>,
          user_name |-> <<>>,
          user_role |-> <<"P", "a", "r", "e", "n", "t">>,
          user_email |-> <<>>,
          proof_file |-> <<>>,
          proof_note |-> <<>>]

\* skills_selected after the custom skill, if any and new, was appended
SelectedSkills(w) ==
    IF w.custom_skill # <<>> /\ w.custom_skill \notin Elements(w.skills_selected)
    THEN Append(w.skills_selected, w.custom_skill)
    ELSE w.skills_selected

\* one run of the script (lines 260 to 403) with the widget values the browser
\* sent: the trigger is the button clicked, held the values of the form widgets,
\* t and t2 what datetime.now() returns to brief_to_markdown and to
\* make_skills_receipt_row
RunScript(trigger, up, held, t, t2) ==
    LET generate == Button("Generate 1-Page Brief", trigger)
        create == Button("Create Skills Receipt", trigger)
        Warning(txt) == IF Len(Strip(txt)) < ShortText THEN {"warning"} ELSE {}
        BriefPage ==
            {"generate_button", "brief", "download_brief", "skills_form", "create_button",
             "contact"}
        \* lines 336 to 391: the block of the 'Create Skills Receipt' button
        Receipt(txt, w) ==
            IF create
            THEN IF w.user_name = <<>>
                 THEN /\ screen' = BriefPage \cup {"name_error"} \cup Warning(txt)
                      /\ now' = t
                      /\ UNCHANGED receipts
                 ELSE /\ screen' = BriefPage \cup Warning(txt)
                                       \cup {"receipt_success", "download_csv",
                                             "download_md", "download_zip"}
                      /\ receipts' = Append(receipts,
                             make_skills_receipt_row(up.name, w.user_name, w.user_role,
                                                     w.user_email, SelectedSkills(w),
                                                     w.proof_note, t2))
                      /\ now' = t2
            ELSE /\ screen' = BriefPage \cup Warning(txt)
                 /\ now' = t
                 /\ UNCHANGED receipts
        \* lines 303 to 391: the skills form
        SkillsForm(txt, inferred_skills) ==
            /\ skills' = inferred_skills
            /\ form' = FormWidgets(held, inferred_skills)
            /\ Receipt(txt, FormWidgets(held, inferred_skills))
        \* lines 275 to 398: the block of the 'Generate 1-Page Brief' button
        Generated(txt, b) ==
            /\ brief' = b
            /\ md' = brief_to_markdown(b, up.name, t)
            /\ SkillsForm(txt, extract_skills(txt, b[<<"R", "e", "q", "u", "i", "r", "e", "m",
                                                       "e", "n", "t", "s">>].list))
        \* lines 263 to 398: a file is uploaded
        Run(txt) ==
            /\ text' = txt
            /\ IF generate
               THEN Generated(txt, make_brief(txt, t))
               ELSE /\ screen' = {"generate_button"} \cup Warning(txt)
                    /\ brief' = <<>>
                    /\ md' = <<>>
                    /\ skills' = <<>>
                    /\ form' = NoForm
                    /\ UNCHANGED <<receipts, now>>
    IN  IF up = NoFile
        THEN /\ screen' = {"tip"}
             /\ text' = <<>>
             /\ brief' = <<>>
             /\ md' = <<>>
             /\ skills' = <<>>
             /\ form' = NoForm
             /\ UNCHANGED <<receipts, now>>
        ELSE Run(UploadedText(up))

----------------------------------------------------------------------------
(* The user's interactions; each one reruns the script                     *)

Docs ==
    {[name |-> <<"n", "e", "w", "s", ".", "t", "x", "t">>, type |-> "text/plain", pages |-> <<>>,
      content |-> <<"F", "o", "r", "m", "s", " ", "a", "r", "e", " ", "d", "u", "e", " ", "J",
                    "a", "n", " ", "5", ",", " ", "2", "0", "2", "4", ".", "\n", "\n", "\n", "\n",
                    "Y", "o", "u", " ", " ", "m", "u", "s", "t", " ", "p", "r", "o", "v", "i", "d",
                    "e", " ", "p", "r", "o", "o", "f", ".">>],
     [name |-> <<"S", "c", "a", "n", ".", "P", "D", "F">>, type |-> "application/pdf", content |-> <<>>,
      pages |-> <<Page(<<"B", "r", "i", "n", "g", " ", "t", "h", "e", " ", "v", "a", "c", "c",
                         "i", "n", "e", " ", "c", "a", "r", "d", ".">>), PageError, Page(<<>>)>>],
     [name |-> <<"l", "o", "n", "g", ".", "t", "x", "t">>, type |-> "text/plain", pages |-> <<>>,
      content |-> <<"P", "o", "l", "i", "c", "y", ":", " ">> \o Repeat("x", ShortText) \o <<".">>]}

Names == {<<>>, <<"A", "n", "n">>}

Roles == {<<"P", "a", "r", "e", "n", "t">>, <<"T", "e", "a", "c", "h", "e", "r">>}

UIUnused == <<max_sentences, summary, top_n, key_points, requirements, deadlines, next_steps,
              source_name, pc>>

InitUI ==
    /\ pc = "ui"
    /\ screen = {"tip"}
    /\ text = <<>>
    /\ max_sentences = 5
    /\ summary = <<>>
    /\ top_n = 6
    /\ key_points = <<>>
    /\ requirements = <<>>
    /\ skills = <<>>
    /\ deadlines = <<<<>>, <<>>>>
    /\ next_steps = <<>>
    /\ source_name = <<>>
    /\ now = <<>>
    /\ brief = <<>>
    /\ md = <<>>
    /\ uploaded = NoFile
    /\ with_styling = TRUE
    /\ form = NoForm
    /\ clicked = NoClick
    /\ receipts = <<>>

\* a file is put into, or taken out of, the 'Upload document' widget
Upload ==
    \E doc \in Docs \cup {NoFile}, t \in Clock :
        /\ doc # uploaded
        /\ uploaded' = doc
        /\ clicked' = [button |-> "Upload document", user_name |-> <<>>]
        /\ RunScript("none", doc, NoForm, t, t)
        /\ UNCHANGED <<with_styling, UIUnused>>

ToggleStyling ==
    \E t \in Clock :
        /\ with_styling' = ~with_styling
        /\ clicked' = [button |-> "Use condensed layout", user_name |-> <<>>]
        /\ RunScript("none", uploaded, NoForm, t, t)
        /\ UNCHANGED <<uploaded, UIUnused>>

\* the text in 'Your name' that the browser sends along with an interaction: what
\* the widget held, or what was typed into it since
TypedInto(held, n) == IF held.shown THEN [held EXCEPT !.user_name = n] ELSE held

ClickGenerate ==
    \E n \in Names, t \in Clock :
        /\ "generate_button" \in screen
        /\ ~form.shown => n = <<>>
        /\ clicked' = [button |-> "Generate 1-Page Brief", user_name |-> n]
        /\ RunScript("Generate 1-Page Brief", uploaded, TypedInto(form, n), t, t)
        /\ UNCHANGED <<uploaded, with_styling, UIUnused>>

\* a widget of the skills form is changed and left: name, role or custom skill
EditForm ==
    \E n \in Names, r \in Roles, t \in Clock :
        /\ "skills_form" \in screen
        /\ clicked' = [button |-> "skills form", user_name |-> n]
        /\ RunScript("none", uploaded, [form EXCEPT !.user_name = n, !.user_role = r], t, t)
        /\ UNCHANGED <<uploaded, with_styling, UIUnused>>

ClickCreate ==
    \E n \in Names, t \in Clock, t2 \in Clock :
        /\ "create_button" \in screen
        /\ clicked' = [button |-> "Create Skills Receipt", user_name |-> n]
        /\ RunScript("Create Skills Receipt", uploaded, TypedInto(form, n), t, t2)
        /\ UNCHANGED <<uploaded, with_styling, UIUnused>>

NextUI == Upload \/ ToggleStyling \/ ClickGenerate \/ EditForm \/ ClickCreate

SpecUI == InitUI /\ [][NextUI]_vars

\* C10: after an upload and a click on 'Generate 1-Page Brief', the run that a
\* click on 'Create Skills Receipt' with a non-empty name triggers calls
\* make_skills_receipt_row and offers the receipt downloads; and a click with an
\* empty name creates no row.
C10_CreateMakesReceipt ==
    clicked.button = "Create Skills Receipt" =>
        IF clicked.user_name # <<>>
        THEN /\ receipts # <<>>
             /\ receipts[Len(receipts)].name = clicked.user_name
             /\ {"download_csv", "download_md", "download_zip"} \subseteq screen
        ELSE receipts = <<>>

====
